---- MODULE Spec2Model ----
(***************************************************************************)
(* Model of REHex::DisassemblyRegion (src/src/disassemble.cpp): the        *)
(* incremental region decoder, its chunk index ("processed"), its          *)
(* instruction cache ("instructions") and the cursor navigation queries.   *)
(*                                                                         *)
(* Offsets are absolute document offsets (0-based).  The two size limits   *)
(* of the source (SOFT_IR_LIMIT = 10240, INSTRUCTION_CACHE_LIMIT = 250000) *)
(* are scaled down so that several chunks and cache overflows occur in     *)
(* regions of a few bytes; SOFT_IR_LIMIT stays a multiple of every         *)
(* instruction width, as 10240 is.                                         *)
(***************************************************************************)
EXTENDS Integers, Sequences, FiniteSets, TLC

(* ------------------------------ bounds --------------------------------- *)

\* longest region (d_length) explored
MaxLen == 5

\* check() calls are explored until the chunk list holds this many chunks
MaxChunks == 4

\* document bytes after the end of the region
TrailLen == 2

\* longest region explored where only check() and calc_height() are called
MaxStepLen == 7

\* most trailing padding lines (indent_final) of a region
MaxIndent == 1

\* longest document the live preview is explored on
MaxDoc == 7

(* ------------------------- program constants --------------------------- *)

SOFT_IR_LIMIT == 4

INSTRUCTION_CACHE_LIMIT == 4

\* WINDOW_SIZE of Disassemble::update (256 in the source), scaled down
WINDOW_SIZE == 8

CURSOR_PREV_REGION == -2

CURSOR_NEXT_REGION == -3

\* max_bytes_per_line() when no instruction has been seen yet
DEFAULT_BYTES_PER_LINE == 8

(* ------------------------------ helpers -------------------------------- *)

Min(a, b) == IF a < b THEN a ELSE b

Max(a, b) == IF a > b THEN a ELSE b

Range(s) == {s[i] : i \in DOMAIN s}

RECURSIVE SumSeq(_)
SumSeq(s) == IF s = <<>> THEN 0 ELSE Head(s) + SumSeq(Tail(s))

RECURSIVE MaxSeq(_)
MaxSeq(s) == IF s = <<>> THEN 0 ELSE Max(Head(s), MaxSeq(Tail(s)))

(* ------------------------- decoder (Capstone) -------------------------- *)

\* Architectures a region can be constructed with (two of known_arch_list).
Archs == {"x86_64", "arm"}

\* the architecture the panel selects when it is constructed
DEFAULT_ARCH == "x86_64"

\* an entry of known_arch_list: its triple and its label
Entry(t, l) == [triple |-> t, label |-> l]

\* arch_list: the entries of known_arch_list in order, every architecture
\* supported by the Capstone in use (version 5.0 or later)
arch_list ==
  << Entry("arm", "ARM"),
     Entry("armeb", "ARM (big endian)"),
     Entry("aarch64", "AArch64 (ARM64)"),
     Entry("aarch64_be", "AArch64 (ARM64, big endian)"),
     Entry("m680x-6301", "Hitachi 6301/6303"),
     Entry("m680x-6309", "Hitachi 6309"),
     Entry("mips", "MIPS"),
     Entry("mipsel", "MIPS (little endian)"),
     Entry("mips64", "MIPS (64-bit)"),
     Entry("mips64el", "MIPS (64-bit, little endian)"),
     Entry("m680x-6800", "Motorola 6800/6802"),
     Entry("m680x-6801", "Motorola 6801/6803"),
     Entry("m680x-6805", "Motorola/Freescale 6805"),
     Entry("m680x-6808", "Motorola/Freescale/NXP 68HC08"),
     Entry("m680x-6809", "Motorola 6809"),
     Entry("m680x-6811", "Motorola/Freescale/NXP 68HC11"),
     Entry("m680x-cpu12", "Motorola/Freescale/NXP 68HC12"),
     Entry("m68k-68000", "Motorola 68000"),
     Entry("m68k-68000", "Motorola 68010"),
     Entry("m68k-68000", "Motorola 68020"),
     Entry("m68k-68000", "Motorola 68030"),
     Entry("m68k-68000", "Motorola 68040"),
     Entry("m68k-68000", "Motorola 68060"),
     Entry("mos65xx", "MOS 65XX (including 6502)"),
     Entry("powerpc", "PowerPC"),
     Entry("powerpc64", "PowerPC (64-bit)"),
     Entry("powerpc64le", "PowerPC (64-bit) (little endian)"),
     Entry("sparc", "SPARC"),
     Entry("sparcel", "SPARC (little endian)"),
     Entry("sparcv9", "SPARC V9 (SPARC64)"),
     Entry("x86_16", "X86-16"),
     Entry("i386", "X86"),
     Entry("x86_64", "X86-64 (AMD64)") >>

\* arch_list[i].triple
triple_of(i) == arch_list[i].triple

\* variant of first_match: the entry of DEFAULT_ARCH selected when no entry
\* has the triple
first_match_or_default(t, cur) ==
  IF \E i \in DOMAIN arch_list : arch_list[i].triple = t
    THEN CHOOSE i \in DOMAIN arch_list :
           /\ arch_list[i].triple = t
           /\ \A j \in 1..(i - 1) : arch_list[j].triple # t
    ELSE CHOOSE i \in DOMAIN arch_list : arch_list[i].triple = DEFAULT_ARCH

\* the loop of load_state over arch_list (lines 202-209): the first entry
\* whose triple is t becomes the selection; the selection stays cur when
\* there is none
first_match(t, cur) ==
  IF \E i \in DOMAIN arch_list : arch_list[i].triple = t
    THEN CHOOSE i \in DOMAIN arch_list :
           /\ arch_list[i].triple = t
           /\ \A j \in 1..(i - 1) : arch_list[j].triple # t
    ELSE cur

\* the loop of the constructor (lines 147-155): every entry with the triple
\* DEFAULT_ARCH is selected in turn, so the last of them stays selected
default_selection ==
  CHOOSE i \in DOMAIN arch_list :
    /\ arch_list[i].triple = DEFAULT_ARCH
    /\ \A j \in (i + 1)..Len(arch_list) : arch_list[j].triple # DEFAULT_ARCH

\* wxConfig without an "arch" entry
NoEntry == [present |-> FALSE]

\* wxConfig whose "arch" entry is the string v
StoreEntry(v) == [present |-> TRUE, value |-> v]

\* wxConfig::Read("arch", defaultVal): the entry, defaultVal without one
Read(cfg, defaultVal) == IF cfg.present THEN cfg.value ELSE defaultVal

\* Bytes cs_disasm_iter skips for an undecodable position when
\* CS_OPT_SKIPDATA is on: 1 on X86, 4 on ARM.
SkipdataSize(a) == IF a = "arm" THEN 4 ELSE 1

\* Length of the real instruction an opcode byte starts, 0 when the byte
\* starts no instruction.  x86_64: byte b > 0 starts a b-byte instruction;
\* arm: every instruction is 4 bytes.
\* Byte values a document of the model is made of: 1 starts an instruction,
\* 0 starts none.
Opcodes == 0..1

\* Length of the instruction an opcode byte starts, 0 when the byte starts
\* no instruction: 2 bytes on x86_64 (as "xor eax, eax"), 4 bytes on arm.
OpcodeLength(a, b) ==
  IF b = 0 THEN 0
  ELSE IF a = "arm" THEN 4 ELSE 2

\* One call of cs_disasm_iter on the bytes data[i..]: the decoded instruction
\* (size > 0) or size = 0 when the call returns false.  With skipdata on, an
\* undecodable position (no instruction, or one cut short by the end of the
\* buffer) yields a ".byte" pseudo-instruction of SkipdataSize bytes unless
\* fewer bytes than that remain.
cs_disasm_iter(a, skipdata, data, i) ==
  LET avail == Len(data) - i + 1
      want  == OpcodeLength(a, data[i])
  IN  IF avail <= 0
        THEN [size |-> 0, mnemonic |-> "", op_str |-> ""]
      ELSE IF want > 0 /\ want <= avail
        THEN [size     |-> want,
              mnemonic |-> IF a = "arm" THEN "mov" ELSE "xor",
              op_str   |-> IF a = "arm" THEN "r0, r1" ELSE "eax, eax"]
      ELSE IF skipdata /\ SkipdataSize(a) <= avail
        THEN [size     |-> SkipdataSize(a),
              mnemonic |-> ".byte",
              op_str   |-> "0x0" \o ToString(data[i])]
      ELSE [size |-> 0, mnemonic |-> "", op_str |-> ""]

\* The loop  while(cs_disasm_iter(...))  : the instructions decoded from
\* data[i..], in order, until the decoder returns false.
RECURSIVE DisasmFrom(_, _, _, _)
DisasmFrom(a, skipdata, data, i) ==
  LET insn == cs_disasm_iter(a, skipdata, data, i)
  IN  IF insn.size = 0 THEN <<>>
      ELSE <<insn @@ [rel |-> i - 1]>>
           \o DisasmFrom(a, skipdata, data, i + insn.size)

(* -------------------------------- state -------------------------------- *)

VARIABLES
  arch,                 \* cs_arch/cs_mode the region was constructed with
  doc,                  \* document bytes, doc[o + 1] is the byte at offset o
  d_offset,             \* GenericDataRegion::d_offset  (base_offset)
  d_length,             \* GenericDataRegion::d_length  (byte_length)
  dirty,                \* ByteRangeSet dirty, as the set of dirty offsets
  processed,            \* std::vector<InstructionRange> processed (chunks)
  instructions,         \* std::vector<Instruction> instructions (cache)
  longest_instruction,  \* max_instruction_width
  longest_disasm,       \* max_text_width
  op,                   \* the last operation called and its arguments
  ret,                  \* what that operation returned
  cleared,              \* the last operation ran instructions.clear()
  assert_ok,            \* FALSE once an assert() of the source has failed
  readable,             \* Document::read_data succeeds (FALSE: it throws)
  y_lines,              \* Region::y_lines, as calc_height left it
  indent_final,         \* Region::indent_final, the trailing padding lines
  is_visible,           \* ToolPanel::is_visible of the Disassemble panel
  selection,            \* arch->GetSelection(): an index into arch_list
  position,             \* document->get_cursor_position()
  assembly,             \* the lines of the panel's CodeCtrl "assembly"
  config,               \* the "arch" entry of the wxConfig settings store
  saved                 \* history: the selection when save_state last ran,
                        \* 0 before it has run

vars == <<arch, doc, d_offset, d_length, dirty, processed, instructions,
          longest_instruction, longest_disasm, op, ret, cleared, assert_ok,
          readable, y_lines, indent_final,
          is_visible, selection, position, assembly, config, saved>>

region_vars == <<arch, doc, d_offset, d_length>>

chunk_vars == <<dirty, processed, longest_instruction, longest_disasm>>

view_vars == <<y_lines, indent_final>>

panel_vars == <<is_visible, selection, position, assembly, config, saved>>

(* --------------------------- document access --------------------------- *)

\* Document::read_data(offset, max_length): the bytes at [offset,
\* offset + max_length), fewer when the document ends earlier.
read_data(d, offset, max_length) ==
  LET last == Min(offset + max_length, Len(d))
  IN  [k \in 1..Max(last - offset, 0) |-> d[offset + k]]

(* ----------------------------- dirty ranges ---------------------------- *)

\* ByteRangeSet::set_range(offset, length) on a set s
set_range(s, offset, length) == s \cup (offset .. (offset + length - 1))

\* ByteRangeSet::clear_range(offset, length) on a set s
clear_range(s, offset, length) == s \ (offset .. (offset + length - 1))

\* ByteRangeSet::operator[](0): the first (lowest) maximal range of s
first_range(s) ==
  LET lo  == CHOOSE o \in s : \A p \in s : o <= p
      len == CHOOSE n \in 1..Cardinality(s) :
               /\ \A k \in 0..(n - 1) : (lo + k) \in s
               /\ (lo + n) \notin s
  IN  [offset |-> lo, length |-> len]

(* --------------------------- region accessors -------------------------- *)

unprocessed_offset_of(p, base) ==
  IF p = <<>> THEN base
  ELSE p[Len(p)].offset + p[Len(p)].length

unprocessed_offset == unprocessed_offset_of(processed, d_offset)

unprocessed_bytes == d_length - (unprocessed_offset - d_offset)

processed_lines ==
  IF processed = <<>> THEN 0
  ELSE processed[Len(processed)].rel_y_offset + processed[Len(processed)].y_lines

max_bytes_per_line ==
  IF longest_instruction > 0 THEN longest_instruction ELSE DEFAULT_BYTES_PER_LINE

(* ------------------------------- Init ---------------------------------- *)

\* State after DisassemblyRegion::DisassemblyRegion: nothing processed, the
\* whole region dirty.  The region is [d_offset, d_offset + d_length) of the
\* document; the document has d_offset zero bytes before the region and
\* TrailLen bytes after it.
InitRegionOf(lengths) ==
  /\ arch \in Archs
  /\ d_offset \in {0, 2}
  /\ d_length \in lengths
  /\ \E body \in [1..d_length -> Opcodes] :
       doc = [k \in 1..(d_offset + d_length + TrailLen) |->
                IF k <= d_offset THEN 0
                ELSE IF k > d_offset + d_length THEN 1
                ELSE body[k - d_offset]]
  /\ dirty = set_range({}, d_offset, d_length)
  /\ processed = <<>>
  /\ instructions = <<>>
  /\ longest_instruction = 0
  /\ longest_disasm = 0
  /\ op = [name |-> "new"]
  /\ ret = <<>>
  /\ cleared = FALSE
  /\ assert_ok = TRUE
  /\ readable = TRUE
  /\ y_lines = 0

\* State after Disassemble::Disassemble, the panel not shown yet: the default
\* architecture selected, nothing listed.
InitPanel ==
  /\ is_visible = FALSE
  /\ selection = default_selection
  /\ position = 0
  /\ assembly = [lines |-> <<>>, center |-> -1]
  /\ config = NoEntry
  /\ saved = 0

InitRegion == InitRegionOf(1..MaxLen)

\* a region without trailing padding, the panel hidden
Init ==
  /\ InitRegion
  /\ indent_final = 0
  /\ InitPanel

(* ------------------------------ check() -------------------------------- *)

\* variant of process_len_of: the first dirty range without the cap
process_len_nocap(first_dirty_range) == first_dirty_range.length

\* variant of process_len_of: the byte budget without the min() against the
\* first dirty range
process_len_nomin(first_dirty_range) == SOFT_IR_LIMIT

\* process_len: the bytes one check() call reads
process_len_of(first_dirty_range) == Min(first_dirty_range.length, SOFT_IR_LIMIT)

\* variant of next_rel_y_offset: the previous chunk's byte length added in
\* place of its line count
next_rel_y_offset_bytes(p) ==
  IF p = <<>> THEN 0
  ELSE p[Len(p)].rel_y_offset + p[Len(p)].length

\* new_ir.rel_y_offset: the line the next chunk starts at
next_rel_y_offset(p) ==
  IF p = <<>> THEN 0
  ELSE p[Len(p)].rel_y_offset + p[Len(p)].y_lines

\* variant of dirty_after: the whole byte budget cleared, not the bytes the
\* chunk consumed
dirty_after_budget(dset, new_ir) == clear_range(dset, new_ir.offset, SOFT_IR_LIMIT)

\* dirty.clear_range(new_ir.offset, new_ir.length)
dirty_after(dset, new_ir) == clear_range(dset, new_ir.offset, new_ir.length)

\* The InstructionRange check() accumulates over the decoded instructions
\* insns (lines 611-632).
new_ir_from(process_base, insns, p) ==
  [offset              |-> process_base,
   length              |-> SumSeq([k \in DOMAIN insns |-> insns[k].size]),
   longest_instruction |-> MaxSeq([k \in DOMAIN insns |-> insns[k].size]),
   longest_disasm      |-> MaxSeq([k \in DOMAIN insns |->
                             Len(insns[k].mnemonic) + 1 + Len(insns[k].op_str)]),
   rel_y_offset        |-> next_rel_y_offset(p),
   y_lines             |-> Len(insns)]

\* the bytes check() reads and decodes: the first dirty range, capped
decode_range(a, d, first_dirty_range) ==
  DisasmFrom(a, TRUE,
             read_data(d, first_dirty_range.offset, process_len_of(first_dirty_range)),
             1)

\* The InstructionRange check() builds from the first dirty range.
new_ir_of(a, d, dset, p) ==
  new_ir_from(first_range(dset).offset, decode_range(a, d, first_range(dset)), p)

\* variant of push_back: the new chunk merged into the last one
push_back_merged(p, new_ir) ==
  IF p = <<>> THEN Append(p, new_ir)
  ELSE [p EXCEPT ![Len(p)].length = @ + new_ir.length,
                 ![Len(p)].y_lines = @ + new_ir.y_lines]

\* processed.push_back(new_ir)
push_back(p, new_ir) == Append(p, new_ir)

\* variant of longest_after: the new chunk's width taken unconditionally
longest_after_last(longest, new_longest) == new_longest

\* a region-wide width after a chunk of width new_longest (lines 640-650)
longest_after(longest, new_longest) ==
  IF new_longest > longest THEN new_longest ELSE longest

\* variant of processing_flag: the flag set on every call that decoded
processing_flag_always(dirty2) == {"PROCESSING"}

\* the PROCESSING flag of check() (lines 654-657), dirty2 the dirty set left
processing_flag(dirty2) == IF dirty2 # {} THEN {"PROCESSING"} ELSE {}

\* the second half of check() (lines 636-659): new_ir is appended, the
\* widths and the dirty set are updated, dirty2 being the dirty set left
check_append(new_ir, dirty2) ==
  /\ assert_ok' = (assert_ok /\
        (processed = <<>> \/
         processed[Len(processed)].offset + processed[Len(processed)].length
           = new_ir.offset))
  /\ processed' = push_back(processed, new_ir)
  /\ longest_instruction' = longest_after(longest_instruction, new_ir.longest_instruction)
  /\ longest_disasm' = longest_after(longest_disasm, new_ir.longest_disasm)
  /\ dirty' = dirty2
  /\ ret' = (IF new_ir.y_lines > 0 THEN {"HEIGHT_CHANGE"} ELSE {})
            \cup (IF \/ new_ir.longest_instruction > longest_instruction
                     \/ new_ir.longest_disasm > longest_disasm
                  THEN {"WIDTH_CHANGE"} ELSE {})
            \cup processing_flag(dirty2)

\* unsigned int DisassemblyRegion::check().  When doc->read_data throws
\* (line 601) the exception leaves check() before anything is assigned; ret
\* is then {"THROWN"}, no flag set being returned.
check ==
  /\ Len(processed) < MaxChunks
  /\ op' = [name |-> "check"]
  /\ cleared' = FALSE
  /\ IF dirty = {}
       THEN /\ ret' = {}
            /\ UNCHANGED <<chunk_vars, assert_ok>>
     ELSE IF ~readable
       THEN /\ ret' = {"THROWN"}
            /\ UNCHANGED <<chunk_vars, assert_ok>>
       ELSE \E new_ir \in {new_ir_of(arch, doc, dirty, processed)} :
              check_append(new_ir, dirty_after(dirty, new_ir))
  /\ UNCHANGED <<region_vars, instructions, readable, view_vars, panel_vars>>

(* --------------------------- chunk look-up ----------------------------- *)

\* std::upper_bound over s, ordered by its field key: the first position
\* whose key is greater than v, Len(s) + 1 when there is none.
upper_bound(s, key, v) ==
  IF \E i \in DOMAIN s : s[i][key] > v
    THEN CHOOSE i \in DOMAIN s :
           /\ s[i][key] > v
           /\ \A j \in 1..(i - 1) : ~(s[j][key] > v)
    ELSE Len(s) + 1

\* variant of processed_by_offset: the end of the chunk counted as inside it
processed_by_offset_le(p, abs_offset) ==
  LET next_ir == upper_bound(p, "offset", abs_offset)
  IN  IF next_ir = 1 THEN 0
      ELSE LET ir == p[next_ir - 1]
           IN  IF ir.offset <= abs_offset /\ (ir.offset + ir.length) >= abs_offset
                 THEN next_ir - 1 ELSE 0

\* processed_by_offset(abs_offset): index of the chunk holding abs_offset,
\* 0 for processed.end()
processed_by_offset(p, abs_offset) ==
  LET next_ir == upper_bound(p, "offset", abs_offset)
  IN  IF next_ir = 1 THEN 0
      ELSE LET ir == p[next_ir - 1]
           IN  IF ir.offset <= abs_offset /\ (ir.offset + ir.length) > abs_offset
                 THEN next_ir - 1 ELSE 0

\* processed_by_line(rel_line): index of the chunk holding rel_line,
\* 0 for processed.end()
processed_by_line(p, rel_line) ==
  LET next_ir == upper_bound(p, "rel_y_offset", rel_line)
  IN  IF next_ir = 1 THEN 0
      ELSE LET ir == p[next_ir - 1]
           IN  IF ir.rel_y_offset <= rel_line /\ (ir.rel_y_offset + ir.y_lines) > rel_line
                 THEN next_ir - 1 ELSE 0

(* -------------------------- instruction cache -------------------------- *)

\* What instruction_by_offset / instruction_by_line return is modelled as
\* [cache, idx, t]: the cache after the call, the position in it of the
\* returned iterator (0 for the pair EMPTY_END), and a trace t of the call:
\* ok (every assert() passed), depth (times the function re-entered itself)
\* and cleared (instructions.clear() ran).
T0 == [ok |-> TRUE, depth |-> 0, cleared |-> FALSE]

EMPTY_END(cache, t) == [cache |-> cache, idx |-> 0, t |-> t]

\* the trace t after an assert(cond)
TAssert(t, cond) == [t EXCEPT !.ok = @ /\ cond]

\* the Instruction vector built from the instructions insns decoded from the
\* bytes ir_data of chunk ir (lines 1307-1321)
instructions_from(ir, ir_data, insns) ==
  [k \in DOMAIN insns |->
     [offset       |-> ir.offset + insns[k].rel,
      length       |-> insns[k].size,
      data         |-> SubSeq(ir_data, insns[k].rel + 1, insns[k].rel + insns[k].size),
      disasm       |-> insns[k].mnemonic \o "\t" \o insns[k].op_str,
      rel_y_offset |-> ir.rel_y_offset + (k - 1)]]

\* variant of new_instructions_of: decoded with CS_OPT_SKIPDATA off
new_instructions_noskip(a, d, ir) ==
  instructions_from(ir, read_data(d, ir.offset, ir.length),
                    DisasmFrom(a, FALSE, read_data(d, ir.offset, ir.length), 1))

\* chunk ir decoded again from the document (lines 1289-1321)
new_instructions_of(a, d, ir) ==
  instructions_from(ir, read_data(d, ir.offset, ir.length),
                    DisasmFrom(a, TRUE, read_data(d, ir.offset, ir.length), 1))

\* variant of insert_at: the new instructions appended at the end
insert_at_end(cache, next_i, new) == cache \o new

\* instructions.insert(next_i, new.begin(), new.end())
insert_at(cache, next_i, new) ==
  SubSeq(cache, 1, next_i - 1) \o new \o SubSeq(cache, next_i, Len(cache))

\* variant of cache_hit: the end of the cached instruction is not compared
cache_hit_noend(cache, next_i, abs_offset) ==
  /\ next_i # 1
  /\ cache[next_i - 1].offset <= abs_offset

\* the cache look-up at the top of instruction_by_offset: the instruction
\* before next_i covers abs_offset
cache_hit(cache, next_i, abs_offset) ==
  /\ next_i # 1
  /\ cache[next_i - 1].offset <= abs_offset
  /\ (cache[next_i - 1].offset + cache[next_i - 1].length) > abs_offset

\* variant of cache_overflows: the size of the cache alone is compared
cache_overflows_alone(cache, new) == Len(cache) > INSTRUCTION_CACHE_LIMIT

\* variant of cache_overflows: >= in place of >
cache_overflows_ge(cache, new) == (Len(cache) + Len(new)) >= INSTRUCTION_CACHE_LIMIT

\* the insert would exceed the cache limit
cache_overflows(cache, new) == (Len(cache) + Len(new)) > INSTRUCTION_CACHE_LIMIT

\* The miss path of instruction_by_offset (lines 1325-1340): the asserts on
\* the decoded instructions new, and their insert at next_i, into a cleared
\* cache when the limit would be exceeded.  Gives the cache and the trace.
cache_fill(cache, next_i, t, new) ==
  [cache |-> IF cache_overflows(cache, new) THEN insert_at(<<>>, 1, new)
             ELSE insert_at(cache, next_i, new),
   t     |-> [ok      |-> /\ t.ok
                          /\ \/ next_i = 1
                             \/ /\ new # <<>>
                                /\ (cache[next_i - 1].offset + cache[next_i - 1].length)
                                     <= new[1].offset
                          /\ \/ next_i = Len(cache) + 1
                             \/ /\ new # <<>>
                                /\ cache[next_i].offset
                                     >= new[Len(new)].offset + new[Len(new)].length,
              depth   |-> t.depth + 1,
              cleared |-> t.cleared \/ cache_overflows(cache, new)]]

\* The call  return instruction_by_offset(abs_offset)  that ends the miss
\* path (line 1342), on the filled cache: it hits, or it misses on the same
\* chunk again and the function never returns (ok = FALSE).
after_fill(filled, abs_offset) ==
  IF cache_hit(filled.cache, upper_bound(filled.cache, "offset", abs_offset), abs_offset)
    THEN [cache |-> filled.cache,
          idx   |-> upper_bound(filled.cache, "offset", abs_offset) - 1,
          t     |-> filled.t]
    ELSE EMPTY_END(filled.cache, [filled.t EXCEPT !.ok = FALSE])

\* variant of read_failed: the cache dropped when the read fails
read_failed_clear(cache, t) == EMPTY_END(<<>>, t)

\* the catch block of instruction_by_offset (lines 1293-1297)
read_failed(cache, t) == EMPTY_END(cache, t)

\* DisassemblyRegion::instruction_by_offset(abs_offset)
instruction_by_offset(a, d, p, cache, abs_offset, t) ==
  IF cache_hit(cache, upper_bound(cache, "offset", abs_offset), abs_offset)
    THEN [cache |-> cache,
          idx   |-> upper_bound(cache, "offset", abs_offset) - 1,
          t     |-> t]
  ELSE IF processed_by_offset(p, abs_offset) = 0 THEN EMPTY_END(cache, t)
  ELSE IF ~readable THEN read_failed(cache, t)
  ELSE after_fill(cache_fill(cache, upper_bound(cache, "offset", abs_offset), t,
                             new_instructions_of(a, d, p[processed_by_offset(p, abs_offset)])),
                  abs_offset)

\* variant of line_within: the chunk's first line is not subtracted
line_within_abs(ir, rel_line) == rel_line

\* line_within_ir: the line's position inside its chunk
line_within(ir, rel_line) == rel_line - ir.rel_y_offset

\* The second half of instruction_by_line (lines 1357-1370): ir_first_i is
\* what instruction_by_offset(ir->offset) returned.
advance_in_ir(ir, line_within_ir, ir_first_i) ==
  IF ir_first_i.idx = 0
    THEN EMPTY_END(ir_first_i.cache,
                   TAssert(ir_first_i.t,
                           /\ line_within_ir >= 0
                           /\ line_within_ir < (ir.rel_y_offset + ir.y_lines)))
  ELSE IF ~((Len(ir_first_i.cache) + 1 - ir_first_i.idx) > line_within_ir)
    THEN EMPTY_END(ir_first_i.cache, TAssert(ir_first_i.t, FALSE))
  ELSE [cache |-> ir_first_i.cache,
        idx   |-> ir_first_i.idx + line_within_ir,
        t     |-> TAssert(ir_first_i.t,
                          /\ line_within_ir >= 0
                          /\ line_within_ir < (ir.rel_y_offset + ir.y_lines))]

\* the look-up of line rel_line in its chunk ir
instruction_in_ir(a, d, p, cache, rel_line, ir) ==
  advance_in_ir(ir, line_within(ir, rel_line),
                instruction_by_offset(a, d, p, cache, ir.offset, T0))

\* DisassemblyRegion::instruction_by_line(rel_line)
instruction_by_line(a, d, p, cache, rel_line) ==
  IF processed_by_line(p, rel_line) = 0 THEN EMPTY_END(cache, T0)
  ELSE instruction_in_ir(a, d, p, cache, rel_line, p[processed_by_line(p, rel_line)])

\* the Instruction a result's iterator points at, <<>> for EMPTY_END
InstructionOf(r) == IF r.idx = 0 THEN <<>> ELSE r.cache[r.idx]

\* offsets a caller may pass: [d_offset, d_offset + d_length]
Positions == d_offset .. (d_offset + d_length)

\* lines a caller may pass: the rows of the region and one past them
Lines == 0 .. d_length

\* the effect on the region of a point query that returned r
answer(name, arg, r) ==
  /\ op' = [name |-> name, arg |-> arg]
  /\ ret' = InstructionOf(r)
  /\ instructions' = r.cache
  /\ cleared' = r.t.cleared
  /\ assert_ok' = (assert_ok /\ r.t.ok)
  /\ UNCHANGED <<region_vars, chunk_vars, readable, view_vars, panel_vars>>

\* a point query by offset (as made by cursor_column, calc_offset_bounds)
query_by_offset ==
  \E abs_offset \in Positions :
    answer("instruction_by_offset", abs_offset,
           instruction_by_offset(arch, doc, processed, instructions, abs_offset, T0))

\* a point query by line (as made by draw, offset_at_xy, nth_row_nearest_column)
query_by_line ==
  \E rel_line \in Lines :
    answer("instruction_by_line", rel_line,
           instruction_by_line(arch, doc, processed, instructions, rel_line))

(* -------------------------- cursor navigation -------------------------- *)

\* A navigation result is [ret, cache, t]: the value returned, the cache
\* after the call and the trace of the look-ups made (see T0).
NavResult(v, cache, t) == [ret |-> v, cache |-> cache, t |-> t]

\* assert(pos >= d_offset); assert(pos <= (d_offset + d_length));
pos_asserts(pos) == pos >= d_offset /\ pos <= (d_offset + d_length)

\* the look-up  instruction_by_offset(pos)  a navigation function makes on
\* the region's state, continuing the trace t
lookup(cache, pos, t) ==
  instruction_by_offset(arch, doc, processed, cache, pos, t)

\* the first look-up of a navigation function called with pos
lookup0(at, pos) == lookup(instructions, at, TAssert(T0, pos_asserts(pos)))

\* a navigation function returning v without a look-up
plain(v, pos) == NavResult(v, instructions, TAssert(T0, pos_asserts(pos)))

\* a navigation function returning v after the look-up instr
after(v, instr) == NavResult(v, instr.cache, instr.t)

\* off_t DisassemblyRegion::cursor_left_from(off_t pos)
cursor_left_from(pos) ==
  plain(IF pos > d_offset THEN pos - 1 ELSE CURSOR_PREV_REGION, pos)

\* variant of cursor_right_from: <= in place of < against the region end
cursor_right_from_le(pos) ==
  plain(IF (pos + 1) <= (d_offset + d_length) THEN pos + 1 ELSE CURSOR_NEXT_REGION, pos)

\* off_t DisassemblyRegion::cursor_right_from(off_t pos)
cursor_right_from(pos) ==
  plain(IF (pos + 1) < (d_offset + d_length) THEN pos + 1 ELSE CURSOR_NEXT_REGION, pos)

\* cursor_up_from, lines 860-872: prev_instr is the instruction before the
\* one at this_instr_off
up_to_prev(pos, this_instr_off, prev_instr) ==
  IF prev_instr.idx = 0 THEN after(pos, prev_instr)
  ELSE after(Min(InstructionOf(prev_instr).offset + (pos - this_instr_off),
                 InstructionOf(prev_instr).offset + InstructionOf(prev_instr).length - 1),
             prev_instr)

\* cursor_up_from, lines 845-872: pos is in the disassembly, instr is the
\* instruction at pos
up_in_disassembly(pos, instr) ==
  IF instr.idx = 0 THEN after(pos, instr)
  ELSE IF InstructionOf(instr).offset = d_offset THEN after(CURSOR_PREV_REGION, instr)
  ELSE up_to_prev(pos, InstructionOf(instr).offset,
                  lookup(instr.cache, InstructionOf(instr).offset - 1, instr.t))

\* variant of up_to_last_instr: the column not clamped to the instruction
up_to_last_instr_noclamp(pos, up_off, instr) ==
  IF instr.idx = 0 THEN after(pos, instr)
  ELSE after(InstructionOf(instr).offset + (pos - up_off), instr)

\* cursor_up_from, lines 883-892: from the first unprocessed row to the last
\* instruction instr
up_to_last_instr(pos, up_off, instr) ==
  IF instr.idx = 0 THEN after(pos, instr)
  ELSE after(Min(InstructionOf(instr).offset + (pos - up_off),
                 InstructionOf(instr).offset + InstructionOf(instr).length - 1),
             instr)

\* off_t DisassemblyRegion::cursor_up_from(off_t pos)
cursor_up_from(pos) ==
  IF pos < unprocessed_offset
    THEN up_in_disassembly(pos, lookup0(pos, pos))
  ELSE IF pos < (unprocessed_offset + max_bytes_per_line)
    THEN IF unprocessed_offset = d_offset
           THEN plain(CURSOR_PREV_REGION, pos)
           ELSE up_to_last_instr(pos, unprocessed_offset,
                                 lookup0(unprocessed_offset - 1, pos))
  ELSE plain(pos - max_bytes_per_line, pos)

\* cursor_down_from, lines 940-952: next_instr is the instruction after the
\* one at this_instr_off
down_to_next(pos, this_instr_off, next_instr) ==
  IF next_instr.idx = 0 THEN after(pos, next_instr)
  ELSE after(Min(InstructionOf(next_instr).offset + (pos - this_instr_off),
                 InstructionOf(next_instr).offset + InstructionOf(next_instr).length - 1),
             next_instr)

\* cursor_down_from, lines 914-952: pos is in the disassembly, instr is the
\* instruction at pos
down_in_disassembly(pos, up_off, instr) ==
  IF instr.idx = 0 THEN after(pos, instr)
  ELSE IF (InstructionOf(instr).offset + InstructionOf(instr).length)
            = (d_offset + d_length)
    THEN after(CURSOR_NEXT_REGION, instr)
  ELSE IF (InstructionOf(instr).offset + InstructionOf(instr).length) = up_off
    THEN after(Min(up_off + (pos - InstructionOf(instr).offset),
                   d_offset + d_length - 1),
               instr)
  ELSE down_to_next(pos, InstructionOf(instr).offset,
                    lookup(instr.cache,
                           InstructionOf(instr).offset + InstructionOf(instr).length,
                           instr.t))

\* variant of down_in_unprocessed: the next row taken only when it holds the
\* column of pos
down_in_unprocessed_strict(pos, line_pos, up_bytes_per_line) ==
  IF (pos + up_bytes_per_line) < (d_offset + d_length)
    THEN plain(pos + up_bytes_per_line, pos)
  ELSE plain(CURSOR_NEXT_REGION, pos)

\* cursor_down_from, lines 955-973: pos is in the unprocessed data, line_pos
\* its column
down_in_unprocessed(pos, line_pos, up_bytes_per_line) ==
  IF (pos + up_bytes_per_line) < (d_offset + d_length)
    THEN plain(pos + up_bytes_per_line, pos)
  ELSE IF ((pos - line_pos) + up_bytes_per_line) < (d_offset + d_length)
    THEN plain(d_offset + d_length - 1, pos)
  ELSE plain(CURSOR_NEXT_REGION, pos)

\* off_t DisassemblyRegion::cursor_down_from(off_t pos)
cursor_down_from(pos) ==
  IF pos < unprocessed_offset
    THEN down_in_disassembly(pos, unprocessed_offset, lookup0(pos, pos))
  ELSE down_in_unprocessed(pos, (pos - unprocessed_offset) % max_bytes_per_line,
                           max_bytes_per_line)

\* cursor_home_from, lines 990-997: instr is the instruction at pos
home_in_disassembly(pos, instr) ==
  IF instr.idx = 0 THEN after(pos, instr)
  ELSE after(InstructionOf(instr).offset, instr)

\* off_t DisassemblyRegion::cursor_home_from(off_t pos)
cursor_home_from(pos) ==
  IF pos < unprocessed_offset
    THEN home_in_disassembly(pos, lookup0(pos, pos))
  ELSE plain(pos - ((pos - unprocessed_offset) % max_bytes_per_line), pos)

\* cursor_end_from, lines 1019-1026: instr is the instruction at pos
end_in_disassembly(pos, instr) ==
  IF instr.idx = 0 THEN after(pos, instr)
  ELSE after(InstructionOf(instr).offset + InstructionOf(instr).length - 1, instr)

\* variant of end_in_unprocessed: the end of the row is not clamped to the
\* last byte of the region
end_in_unprocessed_noclamp(pos, line_pos, up_bytes_per_line) ==
  plain((pos - line_pos) + (up_bytes_per_line - 1), pos)

\* cursor_end_from, lines 1030-1033: pos is in the unprocessed data, line_pos
\* its column
end_in_unprocessed(pos, line_pos, up_bytes_per_line) ==
  plain(Min((pos - line_pos) + (up_bytes_per_line - 1), d_offset + d_length - 1), pos)

\* off_t DisassemblyRegion::cursor_end_from(off_t pos)
cursor_end_from(pos) ==
  IF pos < unprocessed_offset
    THEN end_in_disassembly(pos, lookup0(pos, pos))
  ELSE end_in_unprocessed(pos, (pos - unprocessed_offset) % max_bytes_per_line,
                          max_bytes_per_line)

\* variant of navigate: a wholesale cache clear marks the region dirty again
navigate_redirty(name, pos, r) ==
  /\ op' = [name |-> name, arg |-> pos]
  /\ ret' = r.ret
  /\ instructions' = r.cache
  /\ cleared' = r.t.cleared
  /\ assert_ok' = (assert_ok /\ r.t.ok)
  /\ dirty' = IF r.t.cleared THEN set_range(dirty, d_offset, d_length) ELSE dirty
  /\ UNCHANGED <<region_vars, processed, longest_instruction, longest_disasm,
                 readable, view_vars, panel_vars>>

\* the effect on the region of a navigation call that returned r
navigate(name, pos, r) ==
  /\ op' = [name |-> name, arg |-> pos]
  /\ ret' = r.ret
  /\ instructions' = r.cache
  /\ cleared' = r.t.cleared
  /\ assert_ok' = (assert_ok /\ r.t.ok)
  /\ UNCHANGED <<region_vars, chunk_vars, readable, view_vars, panel_vars>>

cursor_left == \E pos \in Positions : navigate("cursor_left_from", pos, cursor_left_from(pos))

cursor_right == \E pos \in Positions : navigate("cursor_right_from", pos, cursor_right_from(pos))

cursor_up == \E pos \in Positions : navigate("cursor_up_from", pos, cursor_up_from(pos))

cursor_down == \E pos \in Positions : navigate("cursor_down_from", pos, cursor_down_from(pos))

cursor_home == \E pos \in Positions : navigate("cursor_home_from", pos, cursor_home_from(pos))

cursor_end == \E pos \in Positions : navigate("cursor_end_from", pos, cursor_end_from(pos))

(* ------------------------- columns and rows --------------------------- *)

\* cursor_column, lines 1048-1058: instr is the instruction at pos
column_in_disassembly(pos, instr) ==
  IF instr.idx = 0 THEN after(0, instr)
  ELSE NavResult(pos - InstructionOf(instr).offset, instr.cache,
                 TAssert(instr.t,
                         /\ InstructionOf(instr).offset <= pos
                         /\ (InstructionOf(instr).offset + InstructionOf(instr).length) > pos))

\* int DisassemblyRegion::cursor_column(off_t pos)
cursor_column(pos) ==
  IF pos < unprocessed_offset
    THEN column_in_disassembly(pos, lookup0(pos, pos))
  ELSE plain((pos - unprocessed_offset) % max_bytes_per_line, pos)

\* nth_row_nearest_column, lines 1085-1094: instr is the instruction of the row
nearest_in_instruction(column, instr) ==
  IF instr.idx = 0 THEN after(d_offset, instr)
  ELSE after(Min(InstructionOf(instr).offset + column,
                 InstructionOf(instr).offset + InstructionOf(instr).length - 1),
             instr)

\* variant of nearest_in_unprocessed: the row's offset not clamped to the
\* last byte of the region
nearest_in_unprocessed_noclamp(up_base, up_row, up_bytes_per_line, column) ==
  NavResult(up_base + (up_row * up_bytes_per_line) + column, instructions, T0)

\* nth_row_nearest_column, lines 1099-1104: the row is not processed yet
nearest_in_unprocessed(up_base, up_row, up_bytes_per_line, column) ==
  NavResult(Min(up_base + (up_row * up_bytes_per_line) + column,
                d_offset + d_length - 1),
            instructions, T0)

\* off_t DisassemblyRegion::nth_row_nearest_column(int64_t row, int column)
nth_row_nearest_column(row, column) ==
  IF row < processed_lines
    THEN nearest_in_instruction(column,
           instruction_by_line(arch, doc, processed, instructions, row))
  ELSE nearest_in_unprocessed(unprocessed_offset, row - processed_lines,
                              max_bytes_per_line, column)

\* columns a caller may pass: those of the region's bytes and one beyond
Columns == 0 .. d_length

\* rows a caller may pass: the rows of the region and its padding
Rows == 0 .. (d_length + indent_final)

cursor_column_of ==
  \E pos \in Positions : navigate("cursor_column", pos, cursor_column(pos))

nth_row_nearest_column_of ==
  \E row \in Rows : \E column \in Columns :
    navigate("nth_row_nearest_column", <<row, column>>,
             nth_row_nearest_column(row, column))

\* off_t DisassemblyRegion::first_row_nearest_column(int column)
first_row_nearest_column(column) == nth_row_nearest_column(0, column)

\* off_t DisassemblyRegion::last_row_nearest_column(int column)
last_row_nearest_column(column) == nth_row_nearest_column(y_lines, column)

first_row_nearest_column_of ==
  \E column \in Columns :
    navigate("first_row_nearest_column", column, first_row_nearest_column(column))

last_row_nearest_column_of ==
  \E column \in Columns :
    navigate("last_row_nearest_column", column, last_row_nearest_column(column))

(* ----------------------------- hit-testing ----------------------------- *)

\* The display settings of the DocumentCtrl the region is drawn in: the
\* width in pixels of a character of its fixed-width font, the bytes shown
\* per group of the hex area, and the x position calc_width gives the hex
\* area (hex_text_x: the indent and the offset column before it).
hf_char_width == 1

bytes_per_group == 4

hex_text_x == 1

\* DocumentCtrl::hf_char_at_x(x_px): the character cell the pixel is in
hf_char_at_x(x_px) == x_px \div hf_char_width

\* offset_at_x_hex(doc_ctrl, rel_x): the byte of the line whose two hex
\* digits hold the pixel rel_x of the hex area, -1 left of the area and on
\* the space that follows every group of bytes
offset_at_x_hex(rel_x) ==
  IF rel_x < 0 THEN -1
  ELSE IF ((hf_char_at_x(rel_x) + 1) % ((bytes_per_group * 2) + 1)) = 0 THEN -1
  ELSE (hf_char_at_x(rel_x)
          - (hf_char_at_x(rel_x) \div ((bytes_per_group * 2) + 1))) \div 2

\* the pair offset_at_xy returns when no byte is hit
SA_NONE == [offset |-> -1, area |-> "SA_NONE"]

\* the pair it returns for the byte at offset, hit in the hex area
SA_HEX(offset) == [offset |-> offset, area |-> "SA_HEX"]

\* offset_at_xy, lines 670-692: the line is processed, instr its instruction
hit_in_instruction(mouse_x_px, instr) ==
  IF instr.idx = 0 THEN after(SA_NONE, instr)
  ELSE IF mouse_x_px >= hex_text_x
    THEN IF \/ offset_at_x_hex(mouse_x_px - hex_text_x) < 0
            \/ offset_at_x_hex(mouse_x_px - hex_text_x) >= InstructionOf(instr).length
           THEN after(SA_NONE, instr)
           ELSE after(SA_HEX(InstructionOf(instr).offset
                               + offset_at_x_hex(mouse_x_px - hex_text_x)),
                      instr)
  ELSE after(SA_NONE, instr)

\* offset_at_xy, lines 697-719: the line is not processed yet; line_base is
\* the offset of its first byte, line_len the line_len of the source
hit_in_unprocessed(mouse_x_px, line_base, line_len) ==
  IF mouse_x_px >= hex_text_x
    THEN IF \/ offset_at_x_hex(mouse_x_px - hex_text_x) < 0
            \/ offset_at_x_hex(mouse_x_px - hex_text_x) >= line_len
           THEN NavResult(SA_NONE, instructions, T0)
           ELSE NavResult(SA_HEX(line_base + offset_at_x_hex(mouse_x_px - hex_text_x)),
                          instructions, T0)
  ELSE NavResult(SA_NONE, instructions, T0)

\* line_end - line_base of offset_at_xy (lines 701-703)
line_len_of(line_base, up_bytes_per_line) ==
  Min(line_base + up_bytes_per_line, d_offset + d_length - 1) - line_base

\* DisassemblyRegion::offset_at_xy(doc_ctrl, mouse_x_px, mouse_y_lines)
offset_at_xy(mouse_x_px, mouse_y_lines) ==
  IF mouse_y_lines < processed_lines
    THEN hit_in_instruction(mouse_x_px,
           instruction_by_line(arch, doc, processed, instructions, mouse_y_lines))
  ELSE hit_in_unprocessed(mouse_x_px,
         unprocessed_offset + ((mouse_y_lines - processed_lines) * max_bytes_per_line),
         line_len_of(unprocessed_offset
                       + ((mouse_y_lines - processed_lines) * max_bytes_per_line),
                     max_bytes_per_line))

\* x positions of the mouse: the offset column, the hex area of a line of
\* d_length bytes and the pixels after it
MouseX ==
  0 .. (hex_text_x
          + (hf_char_width * ((2 * d_length) + (d_length \div bytes_per_group) + 1)))

offset_at_xy_of ==
  \E mouse_x_px \in MouseX : \E mouse_y_lines \in Rows :
    navigate("offset_at_xy", <<mouse_x_px, mouse_y_lines>>,
             offset_at_xy(mouse_x_px, mouse_y_lines))

\* variant of up_lines_of: the division rounding down
up_lines_floor(up_total, up_bytes_per_line) == up_total \div up_bytes_per_line

\* up_lines of calc_height (line 452): rows the unprocessed bytes take
up_lines_of(up_total, up_bytes_per_line) ==
  (up_total + (up_bytes_per_line - 1)) \div up_bytes_per_line

\* The line calc_offset_bounds gives the byte at offset (lines 1110-1159),
\* relative to the region's first line; -1 when the instruction holding a
\* processed offset cannot be had (the fallback Rect).
line_of_instruction(instr) ==
  IF instr.idx = 0 THEN -1 ELSE InstructionOf(instr).rel_y_offset

line_of_offset(offset) ==
  IF offset < unprocessed_offset
    THEN line_of_instruction(lookup(instructions, offset, T0))
  ELSE processed_lines + ((offset - unprocessed_offset) \div max_bytes_per_line)

\* void DisassemblyRegion::calc_height(DocumentCtrl &doc_ctrl, wxDC &dc)
calc_height ==
  /\ y_lines' = SumSeq([i \in DOMAIN processed |-> processed[i].y_lines])
                  + up_lines_of(unprocessed_bytes, max_bytes_per_line)
                  + indent_final
  /\ op' = [name |-> "calc_height"]
  /\ ret' = <<>>
  /\ cleared' = FALSE
  /\ UNCHANGED <<region_vars, chunk_vars, instructions, assert_ok, readable,
                 indent_final, panel_vars>>

(* ---------------------------- live preview ----------------------------- *)

\* The panel's own decoder (reinit_disassembler) has CS_OPT_SKIPDATA off, so
\* a decode stops at the first position that starts no instruction.

\* std::map<off_t, Instruction> built from the decoded insns (lines 349-358),
\* as the sequence of its entries in key order
instruction_map(offset, insns) ==
  [k \in DOMAIN insns |->
     [offset |-> offset + insns[k].rel,
      length |-> insns[k].size,
      disasm |-> insns[k].mnemonic \o "\t" \o insns[k].op_str]]

\* Disassemble::disassemble(offset, code, size)
disassemble(a, offset, code) ==
  instruction_map(offset, DisasmFrom(a, FALSE, code, 1))

\* the decoding update() tries for the candidate start doc_off: the window's
\* bytes from data_off = doc_off - window_base on
candidate(a, data, window_base, doc_off) ==
  disassemble(a, doc_off, SubSeq(data, (doc_off - window_base) + 1, Len(data)))

\* the values doc_off takes in the two for loops of update()
candidates(data, window_base, pos) ==
  {doc_off \in window_base..pos : (doc_off - window_base) < Len(data)}

\* i_instructions.find(position) != i_instructions.end()
starts_at(i_instructions, pos) ==
  \E k \in DOMAIN i_instructions : i_instructions[k].offset = pos

\* i_instructions.lower_bound(position): the first entry whose key is not
\* below pos, Len + 1 for end()
lower_bound(i_instructions, pos) ==
  IF \E k \in DOMAIN i_instructions : i_instructions[k].offset >= pos
    THEN CHOOSE k \in DOMAIN i_instructions :
           /\ i_instructions[k].offset >= pos
           /\ \A j \in 1..(k - 1) : i_instructions[j].offset < pos
    ELSE Len(i_instructions) + 1

\* variant of overlaps_at: the entry before end() accepted too
overlaps_at_last(i_instructions, ii, pos) ==
  /\ ii # 1
  /\ (i_instructions[ii - 1].offset + i_instructions[ii - 1].length) > pos

\* the test of step 2 (lines 284-286), ii being lower_bound(position)
overlaps_at(i_instructions, ii, pos) ==
  /\ ii # 1
  /\ ii # Len(i_instructions) + 1
  /\ (i_instructions[ii - 1].offset + i_instructions[ii - 1].length) > pos

\* the least offset of a non-empty set of candidate offsets: the one the
\* for loop reaches first
first_of(offsets) == CHOOSE o \in offsets : \A q \in offsets : o <= q

\* variant of select_instructions: step 2 tried before step 1
select_instructions_overlap_first(a, data, window_base, pos, exact, overlap) ==
  IF overlap # {} THEN candidate(a, data, window_base, first_of(overlap))
  ELSE IF exact # {} THEN candidate(a, data, window_base, first_of(exact))
  ELSE <<>>

\* the map "instructions" after steps 1 and 2 of update(): exact and overlap
\* are the candidates passing the test of step 1 and of step 2
select_instructions(a, data, window_base, pos, exact, overlap) ==
  IF exact # {} THEN candidate(a, data, window_base, first_of(exact))
  ELSE IF overlap # {} THEN candidate(a, data, window_base, first_of(overlap))
  ELSE <<>>

\* lines 254-292 of update() on the window data
search(a, data, window_base, pos) ==
  select_instructions(a, data, window_base, pos,
    {o \in candidates(data, window_base, pos) :
       starts_at(candidate(a, data, window_base, o), pos)},
    {o \in candidates(data, window_base, pos) :
       overlaps_at(candidate(a, data, window_base, o),
                   lower_bound(candidate(a, data, window_base, o), pos), pos)})

\* The CodeCtrl after lines 296-318: one line per instruction, the one
\* holding pos active, and the line center_line() was called with (-1 when
\* it was not called).
listing(instrs, pos) ==
  IF instrs # <<>>
    THEN [lines  |-> [k \in DOMAIN instrs |->
                       [offset |-> instrs[k].offset,
                        text   |-> instrs[k].disasm,
                        active |-> /\ instrs[k].offset <= pos
                                   /\ (instrs[k].offset + instrs[k].length) > pos]],
          center |-> IF \E k \in DOMAIN instrs :
                          /\ instrs[k].offset <= pos
                          /\ (instrs[k].offset + instrs[k].length) > pos
                       THEN (CHOOSE k \in DOMAIN instrs :
                               /\ instrs[k].offset <= pos
                               /\ (instrs[k].offset + instrs[k].length) > pos) - 1
                       ELSE 0]
    ELSE [lines  |-> <<[offset |-> pos, text |-> "<invalid instruction>",
                        active |-> TRUE]>>,
          center |-> -1]

\* window_base: half a window before the cursor, clamped to the document start
window_base_of(pos) == Max(pos - (WINDOW_SIZE \div 2), 0)

\* void Disassemble::update(): the CodeCtrl it leaves, shown being the
\* CodeCtrl before the call, d the document and pos its cursor position
update(shown, visible, a, d, can_read, pos) ==
  IF ~visible THEN shown
  ELSE IF ~can_read
    THEN [lines  |-> <<[offset |-> window_base_of(pos), text |-> "std::exception",
                        active |-> FALSE]>>,
          center |-> -1]
  ELSE listing(search(a, read_data(d, window_base_of(pos), WINDOW_SIZE),
                      window_base_of(pos), pos),
               pos)

\* Disassemble::OnCursorUpdate: the document's cursor was moved to pos
OnCursorUpdate ==
  \E pos \in 0..Len(doc) :
    /\ position' = pos
    /\ assembly' = update(assembly, is_visible, triple_of(selection), doc,
                          readable, pos)
    /\ op' = [name |-> "OnCursorUpdate", arg |-> pos]
    /\ ret' = <<>>
    /\ cleared' = FALSE
    /\ UNCHANGED <<region_vars, chunk_vars, instructions, assert_ok, readable,
                   view_vars, is_visible, selection, config, saved>>

\* Disassemble::OnArch: the entry i of the wxChoice was chosen in the panel
OnArchOf(i) ==
  /\ selection' = i
  /\ assembly' = update(assembly, is_visible, triple_of(i), doc, readable,
                        position)
  /\ op' = [name |-> "OnArch", arg |-> i]
  /\ ret' = <<>>
  /\ cleared' = FALSE
  /\ UNCHANGED <<region_vars, chunk_vars, instructions, assert_ok, readable,
                 view_vars, is_visible, position, config, saved>>

\* OnArch with one of the architectures of Archs chosen
OnArch ==
  \E i \in {k \in DOMAIN arch_list : triple_of(k) \in Archs} : OnArchOf(i)

\* OnArch with any entry of the wxChoice chosen
OnArchAny == \E i \in DOMAIN arch_list : OnArchOf(i)

\* Disassemble::save_state(config)
save_state ==
  /\ config' = StoreEntry(triple_of(selection))
  /\ saved' = selection
  /\ op' = [name |-> "save_state"]
  /\ ret' = <<>>
  /\ cleared' = FALSE
  /\ UNCHANGED <<region_vars, chunk_vars, instructions, assert_ok, readable,
                 view_vars, is_visible, selection, position, assembly>>

\* Disassemble::load_state(config)
load_state ==
  /\ selection' = first_match(Read(config, triple_of(selection)), selection)
  /\ assembly' = update(assembly, is_visible, triple_of(selection'), doc,
                        readable, position)
  /\ op' = [name |-> "load_state"]
  /\ ret' = <<>>
  /\ cleared' = FALSE
  /\ UNCHANGED <<region_vars, chunk_vars, instructions, assert_ok, readable,
                 view_vars, is_visible, position, config, saved>>

\* Document::overwrite_data(offset, one byte) followed by the DATA_OVERWRITE
\* event: the only handler of this file bound to it is
\* Disassemble::OnDataModified, which calls update().  DisassemblyRegion
\* has no handler for the event.
OnDataModified ==
  \E offset \in d_offset..(d_offset + d_length - 1) :
    \E byte \in Opcodes \ {doc[offset + 1]} :
      /\ doc' = [doc EXCEPT ![offset + 1] = byte]
      /\ assembly' = update(assembly, is_visible, triple_of(selection), doc',
                            readable, position)
      /\ op' = [name |-> "OnDataModified", arg |-> offset]
      /\ ret' = <<>>
      /\ cleared' = FALSE
      /\ UNCHANGED <<arch, d_offset, d_length, chunk_vars, instructions,
                     assert_ok, readable, view_vars, is_visible, selection,
                     position, config, saved>>

Next ==
  \/ check
  \/ query_by_offset
  \/ query_by_line

Spec == Init /\ [][Next]_vars

\* the region under check() and the cursor navigation of the document view
NextNav ==
  \/ check
  \/ cursor_left
  \/ cursor_right
  \/ cursor_up
  \/ cursor_down
  \/ cursor_home
  \/ cursor_end

SpecNav == Init /\ [][NextNav]_vars

\* every operation of the region on an unchanging, readable document
NextAll ==
  \/ check
  \/ query_by_offset
  \/ query_by_line
  \/ cursor_left
  \/ cursor_right
  \/ cursor_up
  \/ cursor_down
  \/ cursor_home
  \/ cursor_end
  \/ cursor_column_of
  \/ nth_row_nearest_column_of

\* the regions of Init that start after two document bytes and are one byte
\* long or one byte longer than a step's byte budget
InitAll ==
  /\ Init
  /\ d_offset = 2
  /\ d_length \in {1, SOFT_IR_LIMIT + 1}

SpecAll == InitAll /\ [][NextAll]_vars

\* regions of up to MaxStepLen bytes, with and without trailing padding
InitStep ==
  /\ InitRegionOf(1..MaxStepLen)
  /\ indent_final \in 0..MaxIndent
  /\ InitPanel

\* the region under check() and the height calculation of the document view
NextStep ==
  \/ check
  \/ calc_height

SpecStep == InitStep /\ [][NextStep]_vars

\* The document's backing store starts or stops failing: from then on
\* Document::read_data throws, or succeeds again.  Nothing of the region or
\* the panel is called.
io_fault ==
  /\ readable' = ~readable
  /\ UNCHANGED <<region_vars, chunk_vars, instructions, op, ret, cleared,
                 assert_ok, view_vars, panel_vars>>

\* the region on a document whose reads can fail
NextFault ==
  \/ check
  \/ query_by_offset
  \/ query_by_line
  \/ io_fault

SpecFault == Init /\ [][NextFault]_vars

\* State after Disassemble::Disassemble on a document of MaxDoc bytes with
\* the cursor at its start, the panel shown or hidden: the constructor ends
\* with update().  The region of the document covers it whole and is not
\* called.
InitPreview ==
  /\ doc \in [1..MaxDoc -> Opcodes]
  /\ arch = DEFAULT_ARCH
  /\ d_offset = 0
  /\ d_length = MaxDoc
  /\ dirty = set_range({}, 0, MaxDoc)
  /\ processed = <<>>
  /\ instructions = <<>>
  /\ longest_instruction = 0
  /\ longest_disasm = 0
  /\ op = [name |-> "new"]
  /\ ret = <<>>
  /\ cleared = FALSE
  /\ assert_ok = TRUE
  /\ readable = TRUE
  /\ y_lines = 0
  /\ indent_final = 0
  /\ is_visible \in BOOLEAN
  /\ selection = default_selection
  /\ position = 0
  /\ config = NoEntry
  /\ saved = 0
  /\ assembly = update([lines |-> <<>>, center |-> -1], is_visible,
                       DEFAULT_ARCH, doc, TRUE, 0)

\* the events the panel handles
NextPreview ==
  \/ OnCursorUpdate
  \/ OnArch
  \/ OnDataModified

SpecPreview == InitPreview /\ [][NextPreview]_vars

\* the region while the document under it is edited
NextEdit ==
  \/ OnDataModified
  \/ query_by_offset
  \/ check

SpecEdit == Init /\ [][NextEdit]_vars

\* regions of MaxStepLen bytes that start after two document bytes: long
\* enough to have several unprocessed rows after a chunk
InitRows ==
  /\ InitRegionOf({MaxStepLen})
  /\ d_offset = 2
  /\ indent_final = 0
  /\ InitPanel

\* the region under check() and the vertical cursor movement
NextRows ==
  \/ check
  \/ cursor_up
  \/ cursor_down

SpecRows == InitRows /\ [][NextRows]_vars

\* regions two bytes longer than a step's byte budget, which start after two
\* document bytes: one chunk leaves two unprocessed bytes
InitCols ==
  /\ InitRegionOf({SOFT_IR_LIMIT + 2})
  /\ d_offset = 2
  /\ indent_final = 0
  /\ InitPanel

\* the region under check() and the column and nearest-offset queries
NextCols ==
  \/ nth_row_nearest_column_of
  \/ cursor_column_of
  \/ check

SpecCols == InitCols /\ [][NextCols]_vars

\* the regions of InitCols, with and without trailing padding
InitEdge ==
  /\ InitRegionOf({SOFT_IR_LIMIT + 2})
  /\ d_offset = 2
  /\ indent_final \in 0..MaxIndent
  /\ InitPanel

\* the region under check(), the height calculation and the nearest-offset
\* queries on its first and last row
NextEdge ==
  \/ last_row_nearest_column_of
  \/ first_row_nearest_column_of
  \/ calc_height
  \/ check

SpecEdge == InitEdge /\ [][NextEdge]_vars

\* regions one byte longer than a step's byte budget, which start after two
\* document bytes
InitHit ==
  /\ InitRegionOf({SOFT_IR_LIMIT + 1})
  /\ d_offset = 2
  /\ indent_final = 0
  /\ InitPanel

\* the region under check() and the hit-testing of the document view
NextHit ==
  \/ offset_at_xy_of
  \/ check

SpecHit == InitHit /\ [][NextHit]_vars

\* an identifier of the settings store that is no triple of arch_list
UnknownTriple == "z80"

\* State after Disassemble::Disassemble on a document of three bytes, the
\* panel shown or hidden, the settings store without an "arch" entry or with
\* an unrecognized one.
InitState ==
  /\ InitRegionOf({1})
  /\ arch = DEFAULT_ARCH
  /\ d_offset = 0
  /\ doc[1] = 1
  /\ indent_final = 0
  /\ is_visible \in BOOLEAN
  /\ selection = default_selection
  /\ position = 0
  /\ config \in {NoEntry, StoreEntry(UnknownTriple)}
  /\ saved = 0
  /\ assembly = update([lines |-> <<>>, center |-> -1], is_visible,
                       DEFAULT_ARCH, doc, TRUE, 0)

\* the panel's architecture choice and its persisted state
NextState ==
  \/ OnArchAny
  \/ save_state
  \/ load_state

SpecState == InitState /\ [][NextState]_vars

(* ------------------------------- claims -------------------------------- *)

region_end == d_offset + d_length

ChunkSpan(c) == c.offset .. (c.offset + c.length - 1)

\* C1: the chunk list is ordered and contiguous with no gaps or overlaps: the
\* first chunk starts at d_offset and each chunk ends where the next starts;
\* once the dirty set is empty the chunks' byte spans cover exactly
\* [d_offset, d_offset + d_length).
C1_ChunksContiguous ==
  /\ processed # <<>> => processed[1].offset = d_offset
  /\ \A i \in 1..(Len(processed) - 1) :
       processed[i].offset + processed[i].length = processed[i + 1].offset
  /\ dirty = {} =>
       /\ UNION {ChunkSpan(processed[i]) : i \in DOMAIN processed}
            = d_offset .. (region_end - 1)
       /\ SumSeq([i \in DOMAIN processed |-> processed[i].length]) = d_length

\* C1 witness: check() has emptied the dirty set of a region of several chunks
C1_Witness ==
  /\ op.name = "check"
  /\ dirty = {}
  /\ Len(processed) >= 2
  /\ processed[2].length > 0

\* C2: every check() call made while the dirty set is non-empty consumes at
\* least one byte (the frontier strictly advances).
C2_EveryStepAdvances ==
  [][(op'.name = "check" /\ dirty # {}) => unprocessed_offset' > unprocessed_offset]_vars

\* C3: the dirty set is exactly [frontier, d_offset + d_length), frontier
\* being the end of the last chunk; so the chunk lengths and
\* unprocessed_bytes() add up to d_length, and unprocessed_bytes() is the
\* number of dirty bytes.
C3_DirtyIsSuffix ==
  /\ dirty = unprocessed_offset .. (region_end - 1)
  /\ SumSeq([i \in DOMAIN processed |-> processed[i].length]) + unprocessed_bytes
       = d_length
  /\ unprocessed_bytes = Cardinality(dirty)

\* C3 witness: a partly processed region, some bytes in chunks and some dirty
C3_Witness ==
  /\ op.name = "check"
  /\ processed # <<>>
  /\ unprocessed_offset > d_offset
  /\ dirty # {}

\* C4: chunks are contiguous in line space: the first chunk starts at line 0,
\* each chunk's lines end where the next chunk's start, and processed_lines()
\* is the sum of the chunks' line counts.
C4_LinesContiguous ==
  /\ processed # <<>> => processed[1].rel_y_offset = 0
  /\ \A i \in 1..(Len(processed) - 1) :
       processed[i].rel_y_offset + processed[i].y_lines = processed[i + 1].rel_y_offset
  /\ processed_lines = SumSeq([i \in DOMAIN processed |-> processed[i].y_lines])

\* C4 witness: two chunks, the first with fewer lines than bytes
C4_Witness ==
  /\ Len(processed) >= 2
  /\ processed[1].y_lines > 0
  /\ processed[1].y_lines < processed[1].length
  /\ processed[2].y_lines > 0

\* C5: instruction_by_offset is idempotent: calling it again with the offset
\* of the call just made returns the instruction that call returned, and so
\* does the same call on a cleared cache.
C5_Idempotent ==
  op.name = "instruction_by_offset" =>
    /\ InstructionOf(instruction_by_offset(arch, doc, processed, instructions,
                                           op.arg, T0)) = ret
    /\ InstructionOf(instruction_by_offset(arch, doc, processed, <<>>,
                                           op.arg, T0)) = ret

\* C5 witness: a call answered from a cache that holds another chunk too
C5_Witness ==
  /\ op.name = "instruction_by_offset"
  /\ ret # <<>>
  /\ \E i \in DOMAIN instructions :
       processed_by_offset(processed, instructions[i].offset)
         # processed_by_offset(processed, ret.offset)

\* C6: when instruction_by_offset(o) returned instruction I,
\* instruction_by_line(I.rel_y_offset) returns I, from the cache the call left
\* and from an empty cache.
C6_OffsetLineRoundTrip ==
  (op.name = "instruction_by_offset" /\ ret # <<>>) =>
    /\ InstructionOf(instruction_by_line(arch, doc, processed, instructions,
                                         ret.rel_y_offset)) = ret
    /\ InstructionOf(instruction_by_line(arch, doc, processed, <<>>,
                                         ret.rel_y_offset)) = ret

\* C6 witness: the offset queried is inside an instruction that is not the
\* first of its chunk
C6_Witness ==
  /\ op.name = "instruction_by_offset"
  /\ ret # <<>>
  /\ op.arg > ret.offset
  /\ ret.rel_y_offset > 0
  /\ ret.offset > processed[processed_by_offset(processed, ret.offset)].offset

\* C7: cache eviction is wholesale: when a query inserts a batch of n
\* instructions and the cache size plus n exceeds INSTRUCTION_CACHE_LIMIT, the
\* cache holds exactly those n instructions afterwards; when the limit is not
\* exceeded no cached instruction is removed.
C7_WholesaleEviction ==
  [][instructions' # instructions =>
       LET added == Range(instructions') \ Range(instructions)
           n     == Cardinality(added)
       IN  IF Len(instructions) + n > INSTRUCTION_CACHE_LIMIT
             THEN /\ Len(instructions') = n
                  /\ Range(instructions') = added
                  /\ cleared'
             ELSE /\ Range(instructions) \subseteq Range(instructions')
                  /\ Len(instructions') = Len(instructions) + n
                  /\ ~cleared']_vars

\* C7 witness: a query has cleared a non-empty cache and inserted its batch
C7_Witness ==
  /\ cleared
  /\ instructions # <<>>
  /\ Len(instructions) < INSTRUCTION_CACHE_LIMIT

\* C8: the instruction cache is strictly ordered by offset with no overlaps,
\* every cached instruction lies inside the byte span of one chunk, and no
\* assert() has failed.
C8_CacheOrderedInChunks ==
  /\ \A i \in 1..(Len(instructions) - 1) :
       instructions[i].offset + instructions[i].length <= instructions[i + 1].offset
  /\ \A i \in DOMAIN instructions :
       /\ instructions[i].length > 0
       /\ \E c \in DOMAIN processed :
            /\ processed[c].offset <= instructions[i].offset
            /\ instructions[i].offset + instructions[i].length
                 <= processed[c].offset + processed[c].length
  /\ assert_ok

\* C8 witness: the first chunk's instructions were inserted in front of the
\* second chunk's, which were cached first
C8_Witness ==
  /\ op.name = "instruction_by_offset"
  /\ Len(processed) >= 2
  /\ ret # <<>>
  /\ processed_by_offset(processed, ret.offset) = 1
  /\ \E i \in DOMAIN instructions :
       processed_by_offset(processed, instructions[i].offset) = 2

CursorOps == {"cursor_left_from", "cursor_right_from", "cursor_up_from",
              "cursor_down_from", "cursor_home_from", "cursor_end_from"}

\* C9: cursor_left_from then cursor_right_from returns to the original offset
\* for every position strictly inside (d_offset, d_offset + d_length); at the
\* region boundaries the sentinels are returned: CURSOR_PREV_REGION left from
\* d_offset, CURSOR_NEXT_REGION right from the last byte.
C9_LeftRightRoundTrip ==
  /\ op.name = "cursor_left_from" =>
       /\ op.arg = d_offset => ret = CURSOR_PREV_REGION
       /\ (op.arg > d_offset /\ op.arg < region_end) =>
            cursor_right_from(ret).ret = op.arg
       /\ op.arg = region_end =>
            /\ ret = region_end - 1
            /\ cursor_right_from(ret).ret = CURSOR_NEXT_REGION
  /\ op.name = "cursor_right_from" =>
       /\ op.arg >= region_end - 1 => ret = CURSOR_NEXT_REGION
       /\ op.arg < region_end - 1 => ret = op.arg + 1

\* C9 witness: cursor_left_from was called on the last byte of a region of
\* several bytes
C9_Witness ==
  /\ op.name = "cursor_left_from"
  /\ op.arg = region_end - 1
  /\ op.arg > d_offset
  /\ ret = op.arg - 1

\* C10: every cursor_*_from call on a position of [d_offset, d_offset +
\* d_length] returns a previous/next-region sentinel or an offset inside
\* [d_offset, d_offset + d_length], and fails none of its assertions.
C10_NavigationTotal ==
  /\ op.name \in CursorOps =>
       ret \in ({CURSOR_PREV_REGION, CURSOR_NEXT_REGION} \cup Positions)
  /\ assert_ok

\* C10 witness: cursor_end_from on the last row of a partly processed region
\* whose unprocessed rows are shorter than their width allows
C10_Witness ==
  /\ op.name = "cursor_end_from"
  /\ processed # <<>>
  /\ op.arg >= unprocessed_offset
  /\ op.arg < region_end
  /\ ret = region_end - 1
  /\ (op.arg - ((op.arg - unprocessed_offset) % max_bytes_per_line))
       + max_bytes_per_line > region_end

\* C11: after the region is fully processed, an edit signalled at an offset
\* inside the region leaves the dirty set non-empty with a dirty byte at or
\* before the edit offset, and leaves the chunks and the cached instructions
\* that end at or before the edit offset as they were.
C11_EditInvalidates ==
  [][(op'.name = "OnDataModified" /\ dirty = {}) =>
       /\ dirty' # {}
       /\ \E o \in dirty' : o <= op'.arg
       /\ \A i \in DOMAIN processed :
            (processed[i].offset + processed[i].length) <= op'.arg =>
              (i \in DOMAIN processed' /\ processed'[i] = processed[i])
       /\ {i \in Range(instructions) : (i.offset + i.length) <= op'.arg}
            = {i \in Range(instructions') : (i.offset + i.length) <= op'.arg}]_vars

\* C12: the frontier never decreases, a chunk once appended is never
\* modified, split, merged or removed, and no operation other than check()
\* changes the frontier or the chunk list.
C12_FrontierMonotone ==
  [][/\ unprocessed_offset' >= unprocessed_offset
     /\ Len(processed') >= Len(processed)
     /\ SubSeq(processed', 1, Len(processed)) = processed
     /\ op'.name # "check" =>
          (unprocessed_offset' = unprocessed_offset /\ processed' = processed)]_vars

\* C12 witness: a navigation call on a region of two chunks, part processed
C12_Witness ==
  /\ op.name = "cursor_down_from"
  /\ Len(processed) >= 2
  /\ processed[2].length > 0
  /\ unprocessed_offset > d_offset

ReadOnlyOps == CursorOps \cup {"instruction_by_offset", "instruction_by_line",
                               "cursor_column", "nth_row_nearest_column"}

\* C13: instruction_by_offset, instruction_by_line, every cursor_*_from,
\* cursor_column and nth_row_nearest_column leave the chunk list, the dirty
\* set, longest_instruction and longest_disasm unchanged, also when they
\* fill or clear the cache.
C13_QueriesReadOnly ==
  [][op'.name \in ReadOnlyOps => UNCHANGED chunk_vars]_vars

\* C13 witness: nth_row_nearest_column has cleared the cache and refilled it
\* with the instructions of the row's chunk
C13_Witness ==
  /\ op.name = "nth_row_nearest_column"
  /\ cleared
  /\ instructions # <<>>
  /\ processed # <<>>

C15_StillDirtyExact ==
  [][op'.name = "check" =>
       IF dirty = {}
         THEN /\ ret' = {}
              /\ UNCHANGED <<region_vars, chunk_vars, instructions, view_vars>>
         ELSE ("PROCESSING" \in ret') <=> (dirty' # {})]_vars

\* C15 witness: the step that emptied the dirty set of a region of two chunks
C15_Witness ==
  /\ op.name = "check"
  /\ ret # {}
  /\ "PROCESSING" \notin ret
  /\ dirty = {}
  /\ Len(processed) >= 2

\* C16: longest_instruction and longest_disasm are the maxima of the chunks'
\* longest_instruction and longest_disasm (0 without chunks), never decrease,
\* and check() returns WIDTH_CHANGE if and only if one of them increased in
\* that call.
C16_WidthMaxima ==
  [][/\ longest_instruction'
          = MaxSeq([i \in DOMAIN processed' |-> processed'[i].longest_instruction])
     /\ longest_disasm'
          = MaxSeq([i \in DOMAIN processed' |-> processed'[i].longest_disasm])
     /\ longest_instruction' >= longest_instruction
     /\ longest_disasm' >= longest_disasm
     /\ op'.name = "check" =>
          (("WIDTH_CHANGE" \in ret') <=>
             \/ longest_instruction' > longest_instruction
             \/ longest_disasm' > longest_disasm)]_vars

\* C16 witness: the second chunk has widened the region
C16_Witness ==
  /\ op.name = "check"
  /\ Len(processed) = 2
  /\ "WIDTH_CHANGE" \in ret
  /\ processed[2].longest_instruction > processed[1].longest_instruction
  /\ processed[1].longest_instruction > 0

\* the least number of rows of width bytes that hold n bytes
RowsFor(n, width) ==
  CHOOSE k \in 0..n : k * width >= n /\ (k = 0 \/ (k - 1) * width < n)

\* C17: the y_lines calc_height computes is the sum of the chunks' line
\* counts plus ceil(unprocessed_bytes / max_bytes_per_line) plus
\* indent_final, and every byte of the region is given a line in
\* [0, y_lines - indent_final).
C17_LineCount ==
  op.name = "calc_height" =>
    /\ y_lines = processed_lines
                  + RowsFor(unprocessed_bytes, max_bytes_per_line)
                  + indent_final
    /\ \A offset \in d_offset..(region_end - 1) :
         /\ line_of_offset(offset) >= 0
         /\ line_of_offset(offset) < y_lines - indent_final

\* C17 witness: the height of a padded, partly processed region whose
\* unprocessed bytes do not fill their last row
C17_Witness ==
  /\ op.name = "calc_height"
  /\ indent_final > 0
  /\ processed # <<>>
  /\ longest_instruction > 1
  /\ unprocessed_bytes > max_bytes_per_line
  /\ unprocessed_bytes % max_bytes_per_line # 0

PointQueries == {"instruction_by_offset", "instruction_by_line"}

\* C19: a failing document read corrupts nothing.  check() called while
\* reads fail leaves the chunk list, the dirty set, the widths and the cache
\* as they were; a point query made while reads fail leaves them as they
\* were too and returns none unless the cache already holds its answer; and
\* the same query made again once reads work returns the instruction that
\* holds the offset (or has the line) with the document's bytes.  (A step
\* that changes "readable" is the store failing or recovering, not a call.)
C19_ReadFailureHarmless ==
  [][/\ (op'.name = "check" /\ ~readable /\ ~readable') =>
          UNCHANGED <<chunk_vars, instructions, assert_ok>>
     /\ (op'.name \in PointQueries /\ ~readable /\ ~readable') =>
          /\ UNCHANGED <<chunk_vars, instructions, assert_ok>>
          /\ ret' # <<>> => ret' \in Range(instructions)
     /\ ( /\ op.name = "instruction_by_offset" /\ ret = <<>>
          /\ op.arg < unprocessed_offset /\ readable /\ readable'
          /\ op'.name = "instruction_by_offset" /\ op'.arg = op.arg ) =>
          /\ ret' # <<>>
          /\ ret'.offset <= op.arg /\ (ret'.offset + ret'.length) > op.arg
          /\ ret'.data = SubSeq(doc, ret'.offset + 1, ret'.offset + ret'.length)
     /\ ( /\ op.name = "instruction_by_line" /\ ret = <<>>
          /\ op.arg < processed_lines /\ readable /\ readable'
          /\ op'.name = "instruction_by_line" /\ op'.arg = op.arg ) =>
          /\ ret' # <<>>
          /\ ret'.rel_y_offset = op.arg
          /\ ret'.data = SubSeq(doc, ret'.offset + 1, ret'.offset + ret'.length)]_vars

\* C19 witness: a query for a processed offset has returned none because the
\* read of its chunk failed, and the cache still holds the other chunk
C19_Witness ==
  /\ op.name = "instruction_by_offset"
  /\ ~readable
  /\ ret = <<>>
  /\ op.arg < unprocessed_offset
  /\ instructions # <<>>

\* the window update() reads around the cursor, and its base
Window == read_data(doc, window_base_of(position), WINDOW_SIZE)

\* the decoding of the window from the candidate start offset o
DecodingFrom(o) ==
  candidate(triple_of(selection), Window, window_base_of(position), o)

\* The scenario of C20 at offset s: the panel is shown, s is in the window
\* before the cursor, decoding from s yields an instruction at s, and the
\* cursor is inside that instruction, past its first byte.
PreviewScenario(s) ==
  /\ is_visible
  /\ s \in window_base_of(position)..(position - 1)
  /\ DecodingFrom(s) # <<>>
  /\ (DecodingFrom(s)[1].offset + DecodingFrom(s)[1].length) > position

\* the listing has the instruction at s, highlighted
Highlighted(s) ==
  \E k \in DOMAIN assembly.lines :
    /\ assembly.lines[k].offset = s
    /\ assembly.lines[k].active
    /\ assembly.lines[k].text # "<invalid instruction>"

\* some candidate start decodes to an instruction starting at the cursor
ExactStartExists ==
  \E o \in window_base_of(position)..position :
    \E k \in DOMAIN DecodingFrom(o) : DecodingFrom(o)[k].offset = position

\* the decoding from o has an instruction, not its last, that holds the cursor
CoversNotLast(o) ==
  \E k \in 1..(Len(DecodingFrom(o)) - 1) :
    /\ DecodingFrom(o)[k].offset <= position
    /\ (DecodingFrom(o)[k].offset + DecodingFrom(o)[k].length) > position

\* the first candidate start with such an instruction decodes through s
FirstCoveringHas(s) ==
  \E o \in window_base_of(position)..position :
    /\ CoversNotLast(o)
    /\ \A q \in window_base_of(position)..(o - 1) : ~CoversNotLast(q)
    /\ \E k \in DOMAIN DecodingFrom(o) : DecodingFrom(o)[k].offset = s

Covers(o) ==
  \E k \in DOMAIN DecodingFrom(o) :
    /\ DecodingFrom(o)[k].offset <= position
    /\ (DecodingFrom(o)[k].offset + DecodingFrom(o)[k].length) > position

\* the candidate starts whose decoding has an instruction holding the cursor
CoveringStarts == {o \in window_base_of(position)..position : Covers(o)}

\* C21 as stated: when no candidate start from the window base up to the
\* cursor decodes to an instruction starting at the cursor, the preview lists
\* the decoding of the first candidate that has any instruction holding the
\* cursor, the last one decoded included, and it shows
\* "<invalid instruction>" only when no candidate has such an instruction.
C21_FallbackAnyCovering ==
  (is_visible /\ ~ExactStartExists) =>
    IF CoveringStarts # {}
      THEN assembly = listing(DecodingFrom(first_of(CoveringStarts)), position)
      ELSE assembly.lines[1].text = "<invalid instruction>"

\* C22 as stated: the persisted decoder profile round-trips.  Whatever
\* entry of the panel's choice was selected when save_state ran, and whatever
\* is selected now, load_state from the store save_state wrote leaves that
\* entry selected.
C22_ProfileRoundTrip ==
  [][(op'.name = "load_state" /\ saved # 0) => (selection' = saved)]_vars

\* the store has no profile identifier, or one that is no triple of arch_list
NoKnownProfile ==
  \/ ~config.present
  \/ \A i \in DOMAIN arch_list : triple_of(i) # config.value

\* C23 as stated: when the settings store has no profile identifier, or one
\* that matches no supported architecture, load_state leaves the "x86_64"
\* profile selected, whatever was selected before the call.
C23_LoadSelectsDefault ==
  [][(op'.name = "load_state" /\ NoKnownProfile) =>
       (triple_of(selection') = DEFAULT_ARCH)]_vars

\* C23 amended: in that case load_state leaves selected the profile
\* identifier that was selected before the call: with an unrecognized
\* identifier in the store the very entry selected before, with none the
\* first entry of arch_list that has the triple of the entry selected before.
\* It is the "x86_64" entry when nothing was chosen or loaded since the panel
\* was constructed.
C23_LoadKeepsProfile ==
  [][(op'.name = "load_state" /\ NoKnownProfile) =>
       /\ triple_of(selection') = triple_of(selection)
       /\ config.present => (selection' = selection)
       /\ (~config.present) =>
            (\A j \in 1..(selection' - 1) : triple_of(j) # triple_of(selection))
       /\ (op.name = "new") => (triple_of(selection') = DEFAULT_ARCH)]_vars

\* C23 witness: load_state has run on a store with an unrecognized
\* identifier while another entry than "x86_64" was selected
C23_Witness ==
  /\ op.name = "load_state"
  /\ config = StoreEntry(UnknownTriple)
  /\ triple_of(selection) # DEFAULT_ARCH

\* the lengths of a sequence of instructions
LengthsOf(instrs) == [k \in DOMAIN instrs |-> instrs[k].length]

\* the re-decode of chunk ir gives what check() recorded in it
Reproduces(ir, new) ==
  /\ Len(new) = ir.y_lines
  /\ SumSeq(LengthsOf(new)) = ir.length
  /\ \A k \in DOMAIN new :
       /\ new[k].rel_y_offset = ir.rel_y_offset + (k - 1)
       /\ new[k].offset = ir.offset + SumSeq(SubSeq(LengthsOf(new), 1, k - 1))

\* C24: on-demand re-decode reproduces what check() recorded.  For every
\* chunk, the instructions instruction_by_offset decodes from the chunk's
\* byte span on a cache miss are exactly y_lines many, their lengths sum to
\* the chunk's length and the k-th gets line rel_y_offset + k; no assert()
\* of instruction_by_offset or instruction_by_line has failed.
C24_RedecodeReproduces ==
  /\ \A i \in DOMAIN processed :
       Reproduces(processed[i], new_instructions_of(arch, doc, processed[i]))
  /\ assert_ok

\* C24 witness: a query by line has decoded a chunk again, after the cache
\* was cleared, and returned the chunk's last instruction: one byte that
\* begins a longer instruction of the document, cut short by the end of the
\* bytes check() read and so recorded as a one-byte line
C24_Witness ==
  /\ op.name = "instruction_by_line"
  /\ ret # <<>>
  /\ cleared
  /\ ret.length = 1
  /\ OpcodeLength(arch, doc[ret.offset + 1]) > 1
  /\ (ret.offset + 1) < (d_offset + d_length)
  /\ \E i \in DOMAIN processed :
       /\ (processed[i].offset + processed[i].length) = (ret.offset + 1)
       /\ op.arg = (processed[i].rel_y_offset + processed[i].y_lines) - 1

\* the instructions of the chunks p[i..], decoded from the document in order
RECURSIVE DecodedFrom(_, _)
DecodedFrom(p, i) ==
  IF i > Len(p) THEN <<>>
  ELSE new_instructions_of(arch, doc, p[i]) \o DecodedFrom(p, i + 1)

\* The displayed lines of the region, first to last, each with the offset of
\* its first byte and its byte length: one line per instruction of the
\* processed prefix (ins), then the unprocessed bytes from up_off to the
\* region's end in rows of bpl bytes, the last row holding what is left.
LinesOf(ins, up_off, bpl) ==
  [k \in DOMAIN ins |-> [offset |-> ins[k].offset, length |-> ins[k].length]]
  \o [r \in 1..(((d_offset + d_length - up_off) + (bpl - 1)) \div bpl) |->
        [offset |-> up_off + ((r - 1) * bpl),
         length |-> Min(bpl, (d_offset + d_length) - (up_off + ((r - 1) * bpl)))]]

\* the displayed lines of the region in its current processing state
DisplayLines ==
  LinesOf(DecodedFrom(processed, 1), unprocessed_offset, max_bytes_per_line)

\* the line of ls that holds the byte at pos, counted from 0
LineAt(ls, pos) ==
  (CHOOSE k \in DOMAIN ls :
     ls[k].offset <= pos /\ pos < (ls[k].offset + ls[k].length)) - 1

\* the offset on line l of ls at the column of pos, or at the line's last
\* byte when the line is shorter
SameColumnOn(ls, l, pos) ==
  ls[l + 1].offset
    + Min(pos - ls[LineAt(ls, pos) + 1].offset, ls[l + 1].length - 1)

\* what the claim has cursor_up_from(pos) return on the lines ls
UpOn(ls, pos) ==
  IF LineAt(ls, pos) = 0 THEN CURSOR_PREV_REGION
  ELSE SameColumnOn(ls, LineAt(ls, pos) - 1, pos)

\* C25: cursor_up_from(pos), for pos a byte of the region, returns the
\* previous-region sentinel if and only if pos is on line 0, and otherwise
\* the offset on the line immediately above pos's line (instruction line or
\* fixed-width row) at column min(column(pos), length of that line - 1).
C25_CursorUpExact ==
  (op.name = "cursor_up_from" /\ op.arg < (d_offset + d_length)) =>
    (ret = UpOn(DisplayLines, op.arg))

\* C25 witness: cursor_up_from has moved from the first unprocessed row to
\* the last instruction, which is shorter than the column of pos allows
C25_Witness ==
  /\ op.name = "cursor_up_from"
  /\ op.arg > unprocessed_offset
  /\ op.arg < (d_offset + d_length)
  /\ ret >= d_offset
  /\ ret = unprocessed_offset - 1
  /\ (op.arg - unprocessed_offset) > 0
  /\ processed # <<>>

\* what the claim has cursor_down_from(pos) return on the lines ls
DownOn(ls, pos) ==
  IF LineAt(ls, pos) = Len(ls) - 1 THEN CURSOR_NEXT_REGION
  ELSE SameColumnOn(ls, LineAt(ls, pos) + 1, pos)

\* C26: cursor_down_from(pos), for pos a byte of the region, returns the
\* next-region sentinel if and only if pos is on the last line of the region,
\* and otherwise the offset on the line immediately below pos's line at
\* column min(column(pos), length of that line - 1), never past the last
\* byte of the region.
C26_CursorDownExact ==
  (op.name = "cursor_down_from" /\ op.arg < (d_offset + d_length)) =>
    /\ ret = DownOn(DisplayLines, op.arg)
    /\ ret < (d_offset + d_length)

\* C26 witness: cursor_down_from has moved from an unprocessed row to the
\* last row, which is shorter than the column of pos allows, while part of
\* the region is processed
C26_Witness ==
  /\ op.name = "cursor_down_from"
  /\ processed # <<>>
  /\ op.arg > unprocessed_offset
  /\ ret = (d_offset + d_length) - 1
  /\ ret < op.arg + max_bytes_per_line

\* nth_row_nearest_column(line(pos), cursor_column(pos)) on the lines ls
ColumnRoundTrip(ls, pos) ==
  nth_row_nearest_column(LineAt(ls, pos), cursor_column(pos).ret).ret

\* the first half of C27: the two queries are inverse at every byte
InverseOn(ls) ==
  \A pos \in d_offset..(d_offset + d_length - 1) : ColumnRoundTrip(ls, pos) = pos

\* C27 as stated: column and nearest-offset queries are inverse on valid
\* positions, nth_row_nearest_column(line(pos), cursor_column(pos)) = pos for
\* every byte pos of the region in every processing state; and
\* nth_row_nearest_column(row, c), for a row of the region and any c >= 0,
\* returns an offset on that row.
C27_ColumnInverse ==
  /\ InverseOn(DisplayLines)
  /\ (op.name = "nth_row_nearest_column" /\ op.arg[1] < Len(DisplayLines)) =>
       (LineAt(DisplayLines, ret) = op.arg[1])

\* the offset on line l of ls nearest to column
NearestOn(ls, l, column) == ls[l + 1].offset + Min(column, ls[l + 1].length - 1)

\* C28 as stated: last_row_nearest_column(column) returns the offset on the
\* region's last displayed row that is nearest to the column, the start of
\* the last row holding bytes plus min(column, that row's length - 1); and
\* first_row_nearest_column(column) returns that value for row 0.  The last
\* row is judged once calc_height has counted the lines of the current
\* processing state.
C28_EdgeRowsNearest ==
  /\ (/\ op.name = "last_row_nearest_column"
      /\ y_lines = Len(DisplayLines) + indent_final) =>
       (ret = NearestOn(DisplayLines, Len(DisplayLines) - 1, op.arg))
  /\ (op.name = "first_row_nearest_column") =>
       (ret = NearestOn(DisplayLines, 0, op.arg))

\* x positions of the hex area that map to the column c of a line
HexXOf(c) == {x \in MouseX : x >= hex_text_x /\ offset_at_x_hex(x - hex_text_x) = c}

\* C29 as stated: hit-testing covers every byte of the region.  For every
\* byte b, processed or not, offset_at_xy with the line of b and a hex-area x
\* position that maps to b's column returns b; on an unprocessed row the
\* accepted columns are exactly 0 .. min(bytes_per_line, region_end -
\* row_start) - 1, so the last byte of the region is reachable.
C29_HitTestCovers ==
  (/\ op.name = "offset_at_xy"
   /\ op.arg[1] >= hex_text_x
   /\ offset_at_x_hex(op.arg[1] - hex_text_x) >= 0
   /\ op.arg[2] < Len(DisplayLines)) =>
     IF offset_at_x_hex(op.arg[1] - hex_text_x) < DisplayLines[op.arg[2] + 1].length
       THEN ret = SA_HEX(DisplayLines[op.arg[2] + 1].offset
                           + offset_at_x_hex(op.arg[1] - hex_text_x))
       ELSE ret = SA_NONE

\* cache is the instruction lists of some of the chunks processed[i..], each
\* complete and as decoded from the document, in the order of the chunks
RECURSIVE WholeChunks(_, _)
WholeChunks(cache, i) ==
  IF cache = <<>> THEN TRUE
  ELSE IF i > Len(processed) THEN FALSE
  ELSE IF /\ new_instructions_of(arch, doc, processed[i]) # <<>>
          /\ Len(new_instructions_of(arch, doc, processed[i])) <= Len(cache)
          /\ SubSeq(cache, 1, Len(new_instructions_of(arch, doc, processed[i])))
               = new_instructions_of(arch, doc, processed[i])
    THEN WholeChunks(SubSeq(cache,
                            Len(new_instructions_of(arch, doc, processed[i])) + 1,
                            Len(cache)),
                     i + 1)
  ELSE /\ cache[1].offset >= processed[i].offset + processed[i].length
       /\ WholeChunks(cache, i + 1)

\* C30: the instruction cache is bounded.  After any sequence of check()
\* calls and point queries the number of cached instructions never exceeds
\* INSTRUCTION_CACHE_LIMIT (a chunk decoding to at most SOFT_IR_LIMIT
\* instructions, which the limit admits), and the cache always consists of
\* the complete instruction lists of whole chunks.
C30_CacheBounded ==
  /\ \A i \in DOMAIN processed :
       Len(new_instructions_of(arch, doc, processed[i])) <= SOFT_IR_LIMIT
  /\ SOFT_IR_LIMIT <= INSTRUCTION_CACHE_LIMIT
  /\ Len(instructions) <= INSTRUCTION_CACHE_LIMIT
  /\ WholeChunks(instructions, 1)

\* C30 witness: the cache is full, holding the instructions of two chunks,
\* and a point query has just been answered from it
C30_Witness ==
  /\ Len(instructions) = INSTRUCTION_CACHE_LIMIT
  /\ Len(processed) >= 2
  /\ instructions[1].offset < processed[1].offset + processed[1].length
  /\ instructions[Len(instructions)].offset >= processed[2].offset
  /\ op.name \in {"instruction_by_offset", "instruction_by_line"}
  /\ ret # <<>>

====
